---- MODULE Spec2Model ----
(***************************************************************************)
(* Registration storage of the Rejewvenate backend: the storage facade of  *)
(* services/edge-config.js (Edge Config, then Blob, then the local file),  *)
(* the Blob mirror of services/blob-storage.js and the registration        *)
(* service of services/registration.js.                                    *)
(*                                                                         *)
(* The module state of the two services is threaded through the operators  *)
(* as one record s; every operator that models a function returns          *)
(* [s |-> the state after the call, ret |-> what the function returns].    *)
(* The fields writes, ecReq, ecErr, ecOk, sizeErr and skipped of s are     *)
(* observations of the current call (what it attempted and what the tiers  *)
(* answered); no operator reads them to decide anything.                   *)
(***************************************************************************)
EXTENDS Integers, Sequences, FiniteSets, TLC

\* ------------------------------------------------------------------ bounds
MaxTicks == 2      \* how often the clock advances
MaxSyncs == 2      \* cap on mirror invocations in flight
MaxFailures == 5   \* cap on edgeConfigFailureCount
NumRequests == 2   \* registration-service requests that may overlap
MaxRecords == 2    \* cap on the records of a stored collection
MaxServiceCalls == 1  \* registration-service calls made one after the other
MaxRetries == 3    \* largest retries argument of fetchWithRetry

\* ------------------------------------------------------- program constants
EDGE_CONFIG_FAILURE_THRESHOLD == 3
SyncIntervalMinutes == 60

\* -------------------------------------------------------------------- data
Undefined == "undefined"
Null == "null"
\* A value that may be absent is a sequence of length 0 or 1.
None == <<>>
Some(x) == <<x>>
Val(o) == o[1]
NoItem == None          \* the key passover_registrations does not exist
NoBlob == None          \* no passover-registrations*.json object exists

RegistrationIds == {"abc123", "ABC-123"}

\* new Date().toISOString() at the time of the call.
ISONow == "2025-04-01T12:00:00.000Z"

\* A record as storeRegistration leaves it.  A field a record does not have
\* is Undefined.
NewRegistration(id) ==
  [registrationId |-> id, hasDonated |-> "false", donationAmount |-> "0.00",
   registrationDate |-> ISONow, stripeSessionId |-> Undefined,
   donationDate |-> Undefined]

\* A record written before the donation fields existed.
LegacyRegistration(id) ==
  [registrationId |-> id, hasDonated |-> Undefined, donationAmount |-> Undefined,
   registrationDate |-> ISONow, stripeSessionId |-> Undefined,
   donationDate |-> Undefined]

\* The arrays a caller hands to saveRegistrations.
Arrays ==
  {<<>>,
   <<NewRegistration("abc123")>>,
   <<NewRegistration("abc123"), NewRegistration("ABC-123")>>}

IdSet(regs) == {regs[i].registrationId : i \in 1..Len(regs)}

\* ------------------------------------------------------------------- state
VARIABLES
  edgeConfigClient,        \* Null, "sdk" or "manual"
  edgeConfigAvailable,
  edgeConfigFailureCount,
  lastSyncTime,            \* None or Some(the minute of the last Blob put)
  syncInProgress,
  currentBlobPathname,     \* Null or "path"
  localFile,               \* content of data/passover-registrations.json
  blobStore,               \* NoBlob or Some(content of the newest blob)
  edgeStore,               \* NoItem or Some(the Edge Config item)
  blobEnabled,             \* config.blob.enabled
  syncs,                   \* syncRegistrationsToBlob invocations at an await
  now,                     \* the clock, in minutes
  call,                    \* the last completed call and what it did
  reqs,                    \* registration-service requests in progress
  fetching                 \* the fetchWithRetry call in progress

vars == <<edgeConfigClient, edgeConfigAvailable, edgeConfigFailureCount,
          lastSyncTime, syncInProgress, currentBlobPathname, localFile,
          blobStore, edgeStore, blobEnabled, syncs, now, call, reqs,
          fetching>>

\* The module state as one record, with the observations of a call cleared.
Cur ==
  [client |-> edgeConfigClient, avail |-> edgeConfigAvailable,
   count |-> edgeConfigFailureCount, lastSync |-> lastSyncTime,
   inProg |-> syncInProgress, path |-> currentBlobPathname,
   local |-> localFile, blob |-> blobStore, ec |-> edgeStore,
   enabled |-> blobEnabled, syncs |-> syncs, now |-> now,
   writes |-> <<>>, ecReq |-> FALSE, ecErr |-> FALSE, ecOk |-> FALSE,
   sizeErr |-> FALSE, skipped |-> FALSE]

\* const r = <call>; <rest of the function>: the result of a call is bound
\* once and the rest of the function works on it.
With(r, Rest(_)) == Rest(r)

\* A write attempt on a tier, as recorded in s.writes.
Wr(tier, ok, data) == [tier |-> tier, ok |-> ok, data |-> data]

Commit(s) ==
  /\ edgeConfigClient' = s.client
  /\ edgeConfigAvailable' = s.avail
  /\ edgeConfigFailureCount' = s.count
  /\ lastSyncTime' = s.lastSync
  /\ syncInProgress' = s.inProg
  /\ currentBlobPathname' = s.path
  /\ localFile' = s.local
  /\ blobStore' = s.blob
  /\ edgeStore' = s.ec
  /\ syncs' = s.syncs
  /\ UNCHANGED <<blobEnabled, now>>

\* ------------------------------------------------ what the tiers can answer
\* One answer per call: the health of each tier while the call runs.
\*   ecR, ecW  the Edge Config service on reads and on writes
\*   sdk       whether the SDK client's calls work (FALSE: they throw and the
\*             raw HTTP call is made instead)
\*   blobW     "updfail": put on the known pathname fails, put on the base
\*             filename succeeds
Healths ==
  [ecR : {"ok", "down"}, ecW : {"ok", "size", "down"}, sdk : BOOLEAN,
   blobR : BOOLEAN, blobW : {"ok", "updfail", "down"},
   localR : BOOLEAN, localW : BOOLEAN, kind : {"sdk", "manual"}]

\* ------------------------------------------------- local file (edge-config)
getRegistrationsFromLocalStorage(s, h) ==
  [s |-> s, ret |-> IF h.localR THEN s.local ELSE <<>>]

saveRegistrationsToLocalStorage(s, registrations, h) ==
  IF h.localW
  THEN [s |-> [s EXCEPT !.local = registrations,
                        !.writes = Append(@, Wr("local", TRUE, registrations))],
        ret |-> TRUE]
  ELSE [s |-> [s EXCEPT !.writes = Append(@, Wr("local", FALSE, registrations))],
        ret |-> FALSE]

\* ------------------------------------------------------------ blob-storage
isBlobMirroringEnabled(s) == s.enabled

\* put(currentBlobPathname, ...) of saveRegistrationsToBlob, lines 54-74.
PutExisting(s, registrations, ok) ==
  IF ok
  THEN [s |-> [s EXCEPT !.blob = Some(registrations),
                        !.lastSync = Some(s.now),
                        !.writes = Append(@, Wr("blob", TRUE, registrations))],
        ret |-> TRUE]
  ELSE [s |-> [s EXCEPT !.writes = Append(@, Wr("blob", FALSE, registrations))],
        ret |-> FALSE]

\* Variant of PutNew: the put does not stamp lastSyncTime.
PutNewNoStamp(s, registrations, ok) ==
  IF ok
  THEN [s |-> [s EXCEPT !.blob = Some(registrations), !.path = "path",
                        !.writes = Append(@, Wr("blob", TRUE, registrations))],
        ret |-> TRUE]
  ELSE [s |-> [s EXCEPT !.writes = Append(@, Wr("blob", FALSE, registrations))],
        ret |-> FALSE]

\* put(config.blob.filename, ...) of saveRegistrationsToBlob, lines 76-96.
PutNew(s, registrations, ok) ==
  IF ok
  THEN [s |-> [s EXCEPT !.blob = Some(registrations), !.path = "path",
                        !.lastSync = Some(s.now),
                        !.writes = Append(@, Wr("blob", TRUE, registrations))],
        ret |-> TRUE]
  ELSE [s |-> [s EXCEPT !.writes = Append(@, Wr("blob", FALSE, registrations))],
        ret |-> FALSE]

saveRegistrationsToBlob(s, registrations, h) ==
  IF ~isBlobMirroringEnabled(s) THEN [s |-> s, ret |-> FALSE]
  ELSE LET upd == PutExisting(s, registrations, h.blobW = "ok")
       IN IF s.path # Null /\ upd.ret THEN upd
          ELSE PutNew(IF s.path # Null THEN upd.s ELSE s, registrations,
                      h.blobW \in {"ok", "updfail"})

getRegistrationsFromBlob(s, h) ==
  IF ~isBlobMirroringEnabled(s) THEN [s |-> s, ret |-> [success |-> FALSE, data |-> <<>>]]
  ELSE IF ~h.blobR \/ s.blob = NoBlob
       THEN [s |-> s, ret |-> [success |-> FALSE, data |-> <<>>]]
       ELSE [s |-> [s EXCEPT !.path = "path"],
             ret |-> [success |-> TRUE, data |-> Val(s.blob)]]

\* Variant of syncRegistrationsToBlob: the reentrancy flag is not consulted.
syncRegistrationsToBlobNoGuard(s, registrations, force) ==
  IF ~isBlobMirroringEnabled(s) THEN [s |-> s, ret |-> FALSE]
  ELSE IF ~force /\ s.lastSync # None /\ s.now - Val(s.lastSync) < SyncIntervalMinutes
       THEN [s |-> [s EXCEPT !.inProg = FALSE], ret |-> FALSE]
  ELSE LET pc == IF registrations = None THEN "fetch"
                 ELSE IF s.path # Null THEN "putExisting" ELSE "putNew"
       IN [s |-> [s EXCEPT !.inProg = TRUE,
                           !.syncs = Append(@, [pc |-> pc, regs |-> registrations]),
                           !.writes = IF pc = "fetch" THEN @
                                      ELSE Append(@, Wr("mirror", FALSE, Val(registrations)))],
           ret |-> TRUE]

\* The part of syncRegistrationsToBlob that runs before its first await: the
\* reentrancy flag, the interval gate, and the start of the fetch or of the
\* put.  An invocation that reaches an await is kept in s.syncs.
syncRegistrationsToBlob(s, registrations, force) ==
  IF ~isBlobMirroringEnabled(s) THEN [s |-> s, ret |-> FALSE]
  ELSE IF s.inProg THEN [s |-> [s EXCEPT !.skipped = TRUE], ret |-> FALSE]
  ELSE IF ~force /\ s.lastSync # None /\ s.now - Val(s.lastSync) < SyncIntervalMinutes
       THEN [s |-> [s EXCEPT !.inProg = FALSE], ret |-> FALSE]
  ELSE LET pc == IF registrations = None THEN "fetch"
                 ELSE IF s.path # Null THEN "putExisting" ELSE "putNew"
       IN [s |-> [s EXCEPT !.inProg = TRUE,
                           !.syncs = Append(@, [pc |-> pc, regs |-> registrations]),
                           !.writes = IF pc = "fetch" THEN @
                                      ELSE Append(@, Wr("mirror", FALSE, Val(registrations)))],
           ret |-> TRUE]

\* ------------------------------------------------------------- fetch-utils
\* What one call of fetch settles with: a response with a status, or an error.
Response(status) == [kind |-> "response", status |-> status, error |-> Undefined]
NetworkError(error) == [kind |-> "error", status |-> 0, error |-> error]

NetworkErrors == {NetworkError("ECONNRESET"), NetworkError("ETIMEDOUT")}

\* A fetchWithRetry(url, options, retries, backoff) call about to fetch.
\* retries0 and backoff0 keep the arguments of the outermost call; attempts
\* counts the fetch calls settled, waits lists the delays slept, errors the
\* errors caught.
FetchCall(retries, backoff) ==
  [pc |-> "fetch", retries |-> retries, backoff |-> backoff,
   retries0 |-> retries, backoff0 |-> backoff, attempts |-> 0,
   waits |-> <<>>, errors |-> <<>>, result |-> None]

NoFetch == [FetchCall(0, 0) EXCEPT !.pc = "none"]

\* Lines 14-20 of fetchWithRetry: the awaited fetch settles with outcome.
FetchSettles(f, outcome) ==
  IF outcome.kind = "response"
  THEN [f EXCEPT !.pc = "returned", !.attempts = @ + 1, !.result = Some(outcome)]
  ELSE IF f.retries <= 0
  THEN [f EXCEPT !.pc = "thrown", !.attempts = @ + 1,
                 !.errors = Append(@, outcome), !.result = Some(outcome)]
  ELSE [f EXCEPT !.pc = "wait", !.attempts = @ + 1,
                 !.errors = Append(@, outcome)]

\* Variant of BackoffElapses: the delay is not doubled.
BackoffElapsesFixed(f) ==
  [f EXCEPT !.pc = "fetch", !.waits = Append(@, f.backoff),
            !.retries = @ - 1]

\* Lines 22-23 of fetchWithRetry: the timer fires and the function calls
\* itself with one retry fewer and twice the delay.
BackoffElapses(f) ==
  [f EXCEPT !.pc = "fetch", !.waits = Append(@, f.backoff),
            !.retries = @ - 1, !.backoff = @ * 2]

\* ------------------------------------------------------------- edge-config
\* Variant of initEdgeConfigClient: a client is created on every call.
initEdgeConfigClientAlways(s, h) ==
  [s |-> [s EXCEPT !.client = h.kind], ret |-> TRUE]

\* Lines 46-168: a client is created only while there is none; h.kind tells
\* whether createClient succeeds ("sdk") or throws in all three attempts, so
\* that the minimal client of lines 122-155 is built ("manual").
initEdgeConfigClient(s, h) ==
  IF s.client = Null
  THEN [s |-> [s EXCEPT !.client = h.kind], ret |-> TRUE]
  ELSE [s |-> s, ret |-> s.client # Null]

\* The donation defaults of lines 226-235 and 276-285.
NormalizeReg(reg) ==
  [reg EXCEPT !.hasDonated = IF @ = Undefined THEN "false" ELSE @,
              !.donationAmount = IF @ = Undefined THEN "0.00" ELSE @]

Normalize(data) == [i \in 1..Len(data) |-> NormalizeReg(data[i])]

\* Variant of EdgeReadAnswered: a missing item is answered from the local file.
EdgeReadAnsweredMissingIsLocal(s, h) ==
  IF s.ec = NoItem
  THEN With(getRegistrationsFromLocalStorage([s EXCEPT !.ecOk = TRUE], h), LAMBDA l :
         [s |-> l.s, ret |-> [data |-> l.ret, src |-> "local", threw |-> FALSE]])
  ELSE With(Normalize(Val(s.ec)), LAMBDA normalizedData :
       With(saveRegistrationsToLocalStorage([s EXCEPT !.ecOk = TRUE], normalizedData, h),
            LAMBDA w :
         [s |-> IF isBlobMirroringEnabled(w.s)
                THEN syncRegistrationsToBlob(w.s, Some(normalizedData), FALSE).s
                ELSE w.s,
          ret |-> [data |-> normalizedData, src |-> "ec", threw |-> FALSE]]))

\* What getRegistrationsFromEdgeConfig does with an answer of the service,
\* the same after the SDK read (lines 219-245) and the raw read (264-295).
EdgeReadAnswered(s, h) ==
  IF s.ec = NoItem
  THEN [s |-> [s EXCEPT !.ecOk = TRUE],
        ret |-> [data |-> <<>>, src |-> "ec", threw |-> FALSE]]
  ELSE With(Normalize(Val(s.ec)), LAMBDA normalizedData :
       With(saveRegistrationsToLocalStorage([s EXCEPT !.ecOk = TRUE], normalizedData, h),
            LAMBDA w :
         [s |-> IF isBlobMirroringEnabled(w.s)
                THEN syncRegistrationsToBlob(w.s, Some(normalizedData), FALSE).s
                ELSE w.s,
          ret |-> [data |-> normalizedData, src |-> "ec", threw |-> FALSE]]))

\* Variant of EdgeReadFailed: the local file is consulted before Blob.
EdgeReadFailedLocalFirst(s, h) ==
  With(getRegistrationsFromLocalStorage(s, h), LAMBDA l :
  With(getRegistrationsFromBlob(s, h), LAMBDA b :
     IF Len(l.ret) > 0 \/ ~isBlobMirroringEnabled(s) \/ ~b.ret.success
     THEN [s |-> l.s, ret |-> [data |-> l.ret, src |-> "local", threw |-> FALSE]]
     ELSE [s |-> b.s, ret |-> [data |-> b.ret.data, src |-> "blob", threw |-> FALSE]]))

\* The catch block of getRegistrationsFromEdgeConfig, lines 296-315.
EdgeReadFailed(s, h) ==
  With(getRegistrationsFromBlob(s, h), LAMBDA b :
     IF isBlobMirroringEnabled(s) /\ b.ret.success /\ Len(b.ret.data) > 0
     THEN [s |-> b.s, ret |-> [data |-> b.ret.data, src |-> "blob", threw |-> FALSE]]
     ELSE With(getRegistrationsFromLocalStorage(
                 IF isBlobMirroringEnabled(s) THEN b.s ELSE s, h), LAMBDA l :
            [s |-> l.s, ret |-> [data |-> l.ret, src |-> "local", threw |-> FALSE]]))

getRegistrationsFromEdgeConfig(s, h) ==
  LET sdkAnswers == s.client # Null /\ h.sdk /\ h.ecR = "ok"
      rawAnswers == h.ecR = "ok"
  IN IF sdkAnswers \/ rawAnswers
     THEN EdgeReadAnswered([s EXCEPT !.ecReq = TRUE], h)
     ELSE EdgeReadFailed([s EXCEPT !.ecReq = TRUE, !.ecErr = TRUE], h)

saveRegistrationsToEdgeConfig(s, registrations, h) ==
  With(saveRegistrationsToLocalStorage(s, registrations, h), LAMBDA w :
  With(IF isBlobMirroringEnabled(w.s)
       THEN syncRegistrationsToBlob(w.s, Some(registrations), TRUE).s
       ELSE w.s, LAMBDA m :
  LET failed == [m EXCEPT !.writes = Append(@, Wr("ec", FALSE, registrations))]
      stored == [m EXCEPT !.ec = Some(registrations), !.ecOk = TRUE,
                          !.writes = Append(@, Wr("ec", TRUE, registrations))]
      tooLarge == [failed EXCEPT !.avail = FALSE, !.sizeErr = TRUE]
  IN IF m.client # Null /\ h.sdk /\ h.ecW = "ok"
       THEN [s |-> stored, ret |-> TRUE, threw |-> FALSE]
     ELSE IF m.client # Null /\ h.sdk /\ h.ecW = "size"
       THEN [s |-> tooLarge, ret |-> TRUE, threw |-> FALSE]
     ELSE IF h.ecW = "ok"
       THEN [s |-> stored, ret |-> TRUE, threw |-> FALSE]
     ELSE IF h.ecW = "size"
       THEN [s |-> tooLarge, ret |-> TRUE, threw |-> FALSE]
     ELSE [s |-> [failed EXCEPT !.ecErr = TRUE], ret |-> TRUE, threw |-> FALSE]))

\* The test read never rejects (getRegistrationsFromEdgeConfig catches its
\* own errors), and the fallback file exists once the module is loaded.
initializeEdgeConfig(s, h) ==
  With(getRegistrationsFromEdgeConfig(initEdgeConfigClient(s, h).s, h), LAMBDA r :
     IF ~r.ret.threw
     THEN [s |-> [r.s EXCEPT !.avail = TRUE], ret |-> TRUE, threw |-> FALSE]
     ELSE [s |-> [r.s EXCEPT !.avail = FALSE], ret |-> TRUE, threw |-> FALSE])

testEdgeConfig(s, h) ==
  With(initEdgeConfigClient(s, h), LAMBDA c :
     IF ~c.ret THEN [s |-> c.s, ret |-> FALSE]
     ELSE With(getRegistrationsFromEdgeConfig(c.s, h), LAMBDA r :
          IF ~r.ret.threw
          THEN [s |-> [r.s EXCEPT !.avail = TRUE], ret |-> TRUE]
          ELSE [s |-> [r.s EXCEPT !.avail = FALSE], ret |-> FALSE]))

setFailureCount(s, count) ==
  [s |-> [s EXCEPT !.count = count,
                   !.avail = IF count >= EDGE_CONFIG_FAILURE_THRESHOLD THEN FALSE
                             ELSE IF count = 0 /\ s.client # Null THEN TRUE
                             ELSE @],
   ret |-> TRUE]

\* The fallback of getRegistrations after a rejected Edge Config call, lines
\* 436-450 and 466-481: Blob if it yields data, else the array read from the
\* local file at the start of the call.
ReadFallback(s, h, localRegistrations) ==
  With(getRegistrationsFromBlob(s, h), LAMBDA b :
     IF isBlobMirroringEnabled(s) /\ b.ret.success /\ Len(b.ret.data) > 0
     THEN [s |-> b.s,
           ret |-> [success |-> TRUE, data |-> b.ret.data, src |-> "blob",
                    message |-> "Using Blob storage as fallback"]]
     ELSE [s |-> IF isBlobMirroringEnabled(s) THEN b.s ELSE s,
           ret |-> [success |-> TRUE, data |-> localRegistrations, src |-> "local",
                    message |-> "Using local storage fallback"]])

\* Variant of GetBlobFirst: an empty Blob array does not end the call.
GetBlobFirstNeedsData(s, h) ==
  With(getRegistrationsFromBlob(s, h), LAMBDA b :
     IF s.count >= EDGE_CONFIG_FAILURE_THRESHOLD /\ isBlobMirroringEnabled(s)
     THEN IF b.ret.success /\ Len(b.ret.data) > 0
          THEN [s |-> [b.s EXCEPT !.count = 0], done |-> TRUE,
                ret |-> [success |-> TRUE, data |-> b.ret.data, src |-> "blob",
                         message |-> Undefined]]
          ELSE [s |-> b.s, done |-> FALSE, ret |-> Undefined]
     ELSE [s |-> s, done |-> FALSE, ret |-> Undefined])

\* Lines 407-422 of getRegistrations: at the failure threshold Blob is read
\* first, and a successful read ends the call and resets the counter.
\* done tells whether the call returns here.
GetBlobFirst(s, h) ==
  With(getRegistrationsFromBlob(s, h), LAMBDA b :
     IF s.count >= EDGE_CONFIG_FAILURE_THRESHOLD /\ isBlobMirroringEnabled(s)
     THEN IF b.ret.success
          THEN [s |-> [b.s EXCEPT !.count = 0], done |-> TRUE,
                ret |-> [success |-> TRUE, data |-> b.ret.data, src |-> "blob",
                         message |-> Undefined]]
          ELSE [s |-> b.s, done |-> FALSE, ret |-> Undefined]
     ELSE [s |-> s, done |-> FALSE, ret |-> Undefined])

\* Lines 425-431 of getRegistrations and 528-534 of saveRegistrations: while
\* Edge Config is flagged unavailable, initializeEdgeConfig is awaited and its
\* result assigned to the flag.
EnsureInitialized(s, h) ==
  IF s.avail THEN [s |-> s, threw |-> FALSE]
  ELSE With(initializeEdgeConfig(s, h), LAMBDA i :
     IF i.threw THEN [s |-> [i.s EXCEPT !.count = @ + 1], threw |-> TRUE]
     ELSE [s |-> [i.s EXCEPT !.avail = i.ret, !.count = IF i.ret THEN 0 ELSE @],
           threw |-> FALSE])

\* Variant of GetFromEdge: the counter is not reset after the read.
GetFromEdgeNoReset(s, h, localRegistrations) ==
  With(getRegistrationsFromEdgeConfig(s, h), LAMBDA r :
     IF ~r.ret.threw
     THEN [s |-> r.s,
           ret |-> [success |-> TRUE, data |-> r.ret.data, src |-> r.ret.src,
                    message |-> "Using Edge Config"]]
     ELSE ReadFallback([r.s EXCEPT !.count = @ + 1], h, localRegistrations))

\* Lines 454-482 of getRegistrations.
GetFromEdge(s, h, localRegistrations) ==
  With(getRegistrationsFromEdgeConfig(s, h), LAMBDA r :
     IF ~r.ret.threw
     THEN [s |-> [r.s EXCEPT !.count = 0],
           ret |-> [success |-> TRUE, data |-> r.ret.data, src |-> r.ret.src,
                    message |-> "Using Edge Config"]]
     ELSE ReadFallback([r.s EXCEPT !.count = @ + 1], h, localRegistrations))

getRegistrations(s, h) ==
  With(getRegistrationsFromLocalStorage(s, h), LAMBDA l :
  With(GetBlobFirst(l.s, h), LAMBDA first :
     IF first.done THEN [s |-> first.s, ret |-> first.ret]
     ELSE With(EnsureInitialized(first.s, h), LAMBDA i :
          IF i.threw THEN ReadFallback(i.s, h, l.ret)
          ELSE GetFromEdge(i.s, h, l.ret))))

\* The fallback of saveRegistrations after a rejected Edge Config call, lines
\* 539-553 and 571-585.
SaveFallback(s, registrations, h) ==
  With(saveRegistrationsToBlob(s, registrations, h), LAMBDA b :
     IF isBlobMirroringEnabled(s) /\ b.ret
     THEN [s |-> b.s,
           ret |-> [success |-> TRUE,
                    message |-> "Successfully saved registrations to Blob storage"]]
     ELSE [s |-> IF isBlobMirroringEnabled(s) THEN b.s ELSE s,
           ret |-> [success |-> TRUE,
                    message |-> "Successfully saved registrations to local storage"]])

\* Line 511 reads isEdgeConfigInitialized, which the module never declares
\* (it declares edgeConfigInitialized and isEdgeConfigInitializing): the
\* evaluation throws a ReferenceError, which the catch of line 522 swallows.
ReinitCheckThrows == TRUE

\* Lines 503-525 of saveRegistrations: at the failure threshold the array is
\* put to Blob first; the call returns here only if line 511 does not throw
\* and the put succeeded.
SaveBlobFirst(s, registrations, h) ==
  IF s.count >= EDGE_CONFIG_FAILURE_THRESHOLD /\ isBlobMirroringEnabled(s)
  THEN With(saveRegistrationsToBlob(s, registrations, h), LAMBDA b :
         IF ReinitCheckThrows
         THEN [s |-> b.s, done |-> FALSE, ret |-> Undefined]
         ELSE [s |-> initializeEdgeConfig(b.s, h).s, done |-> b.ret,
               ret |-> [success |-> TRUE,
                        message |-> "Successfully saved registrations to Blob storage"]])
  ELSE [s |-> s, done |-> FALSE, ret |-> Undefined]

\* Variant of SaveToEdge: success reports whether Edge Config stored the array.
SaveToEdgeReportsEdge(s, registrations, h) ==
  With(saveRegistrationsToEdgeConfig(s, registrations, h), LAMBDA e :
     [s |-> [e.s EXCEPT !.count = IF e.ret THEN 0 ELSE @],
      ret |-> [success |-> e.s.ecOk,
               message |-> "Successfully saved registrations to Edge Config"]])

\* Lines 557-586 of saveRegistrations.
SaveToEdge(s, registrations, h) ==
  With(saveRegistrationsToEdgeConfig(s, registrations, h), LAMBDA e :
     IF ~e.threw
     THEN [s |-> [e.s EXCEPT !.count = IF e.ret THEN 0 ELSE @],
           ret |-> [success |-> TRUE,
                    message |-> "Successfully saved registrations to Edge Config"]]
     ELSE SaveFallback([e.s EXCEPT !.count = @ + 1], registrations, h))

\* Variant of SaveLocalFirst: the first local write is left out.
SaveLocalSkipped(s, registrations, h) == s

\* Line 501 of saveRegistrations.
SaveLocalFirst(s, registrations, h) ==
  saveRegistrationsToLocalStorage(s, registrations, h).s

saveRegistrations(s, registrations, h) ==
  With(SaveBlobFirst(SaveLocalFirst(s, registrations, h), registrations, h),
       LAMBDA first :
     IF first.done THEN [s |-> first.s, ret |-> first.ret]
     ELSE With(EnsureInitialized(first.s, h), LAMBDA i :
          IF i.threw THEN SaveFallback(i.s, registrations, h)
          ELSE SaveToEdge(i.s, registrations, h)))

\* ------------------------------------------------------------ registration
extractRegistrationsArray(result) == result.data

\* Variant of storeRegistrationRead: the record is kept as the caller sent it.
storeRegistrationReadUnstamped(s, registration, h) ==
  With(getRegistrations(s, h), LAMBDA result :
     [s |-> result.s,
      ret |-> [pc |-> "save", registration |-> registration,
               snapshot |-> extractRegistrationsArray(result.ret),
               registrations |-> extractRegistrationsArray(result.ret)]])

\* storeRegistration up to the await of getRegistrations (lines 36-45): the
\* record is stamped, the collection is read.
storeRegistrationRead(s, registration, h) ==
  With(getRegistrations(s, h), LAMBDA result :
     [s |-> result.s,
      ret |-> [pc |-> "save",
               registration |-> [registration EXCEPT !.registrationDate = ISONow,
                                                     !.hasDonated = "false",
                                                     !.donationAmount = "0.00"],
               snapshot |-> extractRegistrationsArray(result.ret),
               registrations |-> extractRegistrationsArray(result.ret)]])

\* Variant of storeRegistrationWrite: the collection is read again and the
\* record appended to what is stored at the time of the write.
storeRegistrationWriteFresh(s, req, h) ==
  With(getRegistrations(s, h), LAMBDA fresh :
  With(Append(extractRegistrationsArray(fresh.ret), req.registration),
       LAMBDA registrations :
     [s |-> saveRegistrations(fresh.s, registrations, h).s,
      ret |-> [req EXCEPT !.pc = "done", !.registrations = registrations]]))

\* storeRegistration from the push to its return (lines 47-53): the record is
\* appended to the array that was read and the whole array is saved.
storeRegistrationWrite(s, req, h) ==
  With(Append(req.registrations, req.registration), LAMBDA registrations :
     [s |-> saveRegistrations(s, registrations, h).s,
      ret |-> [req EXCEPT !.pc = "done", !.registrations = registrations]])

\* The characters of the id strings that occur.
Chars(id) ==
  CASE id = "abc123" -> <<"a", "b", "c", "1", "2", "3">>
    [] id = "ABC-123" -> <<"A", "B", "C", "-", "1", "2", "3">>
    [] id = "Abc-123" -> <<"A", "b", "c", "-", "1", "2", "3">>
    [] OTHER -> <<"z", "z", "z">>

toLowerCase(c) ==
  CASE c = "A" -> "a" [] c = "B" -> "b" [] c = "C" -> "c" [] OTHER -> c

\* id.replace(/-/g, '').toLowerCase(), as a sequence of characters.
NormalizeId(id) ==
  LET kept == SelectSeq(Chars(id), LAMBDA c : c # "-")
  IN [i \in 1..Len(kept) |-> toLowerCase(kept[i])]

\* The least element of a set of indices, 0 if there is none.
First(S) == IF S = {} THEN 0 ELSE CHOOSE i \in S : \A j \in S : i <= j

\* registrations.findIndex(reg => reg.registrationId === registrationId),
\* counted from 1, 0 for not found.
findIndex(registrations, registrationId) ==
  First({i \in 1..Len(registrations) :
           registrations[i].registrationId = registrationId})

\* An error thrown by a function of the registration service.
Thrown(s, message, read) ==
  [s |-> s, ret |-> [outcome |-> "throw", message |-> message, value |-> None,
                     read |-> read, saved |-> None]]

Returned(s, value, read, saved) ==
  [s |-> s, ret |-> [outcome |-> "return", message |-> Undefined, value |-> value,
                     read |-> read, saved |-> saved]]

\* catch (error) { throw new Error(message) }: an error thrown in the try block
\* is replaced by a new one that carries only the message of the catch block.
Rethrown(r, message) ==
  IF r.ret.outcome = "throw" THEN [r EXCEPT !.ret.message = message] ELSE r

\* The flexible search of getRegistrationById, lines 78-89: find() visits the
\* records in order and stops at the first match; on a record without a
\* registrationId the callback throws a TypeError (undefined has no replace).
FlexibleMatch(s, registrations, registrationId) ==
  LET flex == First({i \in 1..Len(registrations) :
                       /\ registrations[i].registrationId # Undefined
                       /\ NormalizeId(registrations[i].registrationId)
                            = NormalizeId(registrationId)})
      bad == First({i \in 1..Len(registrations) :
                      registrations[i].registrationId = Undefined})
  IN IF bad # 0 /\ (flex = 0 \/ bad < flex)
     THEN Thrown(s, "Cannot read properties of undefined (reading 'replace')",
                 registrations)
     ELSE IF flex # 0 THEN Returned(s, Some(registrations[flex]), registrations, None)
     ELSE Returned(s, None, registrations, None)

\* The try block of getRegistrationById, lines 67-89.
getRegistrationByIdTry(s, registrationId, h) ==
  With(getRegistrations(s, h), LAMBDA result :
  With(extractRegistrationsArray(result.ret), LAMBDA registrations :
  With(findIndex(registrations, registrationId), LAMBDA exact :
     IF exact # 0
     THEN Returned(result.s, Some(registrations[exact]), registrations, None)
     ELSE FlexibleMatch(result.s, registrations, registrationId))))

\* Lines 65-94: the catch block throws a new error with its own message.
getRegistrationById(s, registrationId, h) ==
  Rethrown(getRegistrationByIdTry(s, registrationId, h),
           "Failed to retrieve registration data")

\* The amounts (in thousandths) a donation is made of, and the strings
\* toFixed(2) makes of the cents they round to.
Amounts == {1996, 25000}

CentsString(cents) ==
  CASE cents = 200 -> "2.00" [] cents = 2500 -> "25.00" [] OTHER -> "0.00"

\* parseFloat(donationAmount).toFixed(2)
toFixed2(thousandths) == CentsString((thousandths + 5) \div 10)

\* Variant of WithDonation: donationAmount is left as it was.
WithDonationUnformatted(reg, donationAmount, stripeSessionId) ==
  [reg EXCEPT !.hasDonated = "true",
              !.stripeSessionId = IF stripeSessionId = Undefined
                                  THEN Null ELSE stripeSessionId,
              !.donationDate = ISONow]

\* Lines 130-133 of updateRegistrationDonation.
WithDonation(reg, donationAmount, stripeSessionId) ==
  [reg EXCEPT !.hasDonated = "true",
              !.donationAmount = toFixed2(donationAmount),
              !.stripeSessionId = IF stripeSessionId = Undefined
                                  THEN Null ELSE stripeSessionId,
              !.donationDate = ISONow]

\* The try block of updateRegistrationDonation, lines 119-139.
updateRegistrationDonationTry(s, registrationId, donationAmount, stripeSessionId, h) ==
  With(getRegistrations(s, h), LAMBDA result :
  With(extractRegistrationsArray(result.ret), LAMBDA read :
  With(findIndex(read, registrationId), LAMBDA registrationIndex :
     IF registrationIndex = 0
     THEN Thrown(result.s, "Registration not found: id", read)
     ELSE With([read EXCEPT ![registrationIndex] =
                    WithDonation(@, donationAmount, stripeSessionId)],
               LAMBDA registrations :
            Returned(saveRegistrations(result.s, registrations, h).s,
                     Some(registrations[registrationIndex]), read,
                     Some(registrations))))))

\* Lines 117-144: the catch block throws a new error with its own message.
updateRegistrationDonation(s, registrationId, donationAmount, stripeSessionId, h) ==
  Rethrown(updateRegistrationDonationTry(s, registrationId, donationAmount,
                                         stripeSessionId, h),
           "Failed to update registration with donation info")

\* Variant of Splice: the records from the index on are removed.
SpliceToEnd(registrations, registrationIndex) ==
  [j \in 1..(registrationIndex - 1) |-> registrations[j]]

\* registrations.splice(registrationIndex, 1)
Splice(registrations, registrationIndex) ==
  [j \in 1..(Len(registrations) - 1) |->
     IF j < registrationIndex THEN registrations[j] ELSE registrations[j + 1]]

\* The try block of deleteRegistration, lines 153-170.
deleteRegistrationTry(s, registrationId, h) ==
  With(getRegistrations(s, h), LAMBDA result :
  With(extractRegistrationsArray(result.ret), LAMBDA read :
  With(findIndex(read, registrationId), LAMBDA registrationIndex :
     IF registrationIndex = 0
     THEN Thrown(result.s, "Registration not found: id", read)
     ELSE With(Splice(read, registrationIndex), LAMBDA registrations :
            Returned(saveRegistrations(result.s, registrations, h).s,
                     None, read, Some(registrations))))))

\* Lines 151-175: the catch block throws a new error with its own message.
deleteRegistration(s, registrationId, h) ==
  Rethrown(deleteRegistrationTry(s, registrationId, h),
           "Failed to delete registration")

\* storeRegistration run to completion, lines 34-58.
storeRegistration(s, registration, h) ==
  With(storeRegistrationRead(s, registration, h), LAMBDA r :
  With(storeRegistrationWrite(r.s, r.ret, h), LAMBDA w :
     Returned(w.s, Some(w.ret.registration), r.ret.snapshot,
              Some(w.ret.registrations))))

\* ------------------------------------------------------------------ routes
\* error.message.includes('not found'), on the messages that occur.
IncludesNotFound(message) ==
  message \in {"Registration not found", "Registration not found: id"}

Answer(s, status, message, read, saved) ==
  [s |-> s, ret |-> [outcome |-> "answer", status |-> status, message |-> message,
                     value |-> None, read |-> read, saved |-> saved]]

\* DELETE /delete-passover-registration/:id, routes/registrations.js 232-262.
DeleteRoute(s, registrationId, h) ==
  With(getRegistrationById(s, registrationId, h), LAMBDA g :
     IF g.ret.outcome = "throw"
     THEN Answer(g.s, 500, "Failed to delete registration", g.ret.read, None)
     ELSE IF g.ret.value = None
     THEN Answer(g.s, 404, "Registration not found", g.ret.read, None)
     ELSE With(deleteRegistration(g.s, registrationId, h), LAMBDA d :
          IF d.ret.outcome = "throw"
          THEN Answer(d.s, 500, "Failed to delete registration", d.ret.read, None)
          ELSE Answer(d.s, 200, "Registration deleted successfully",
                      d.ret.read, d.ret.saved)))

\* POST /update-registration-donation, routes/donations.js 104-160, for a
\* request that passes the checks of lines 109-129.
UpdateDonationRoute(s, registrationId, donationAmount, stripeSessionId, h) ==
  With(updateRegistrationDonation(s, registrationId, donationAmount,
                                  stripeSessionId, h), LAMBDA u :
     IF u.ret.outcome = "throw"
     THEN IF IncludesNotFound(u.ret.message)
          THEN Answer(u.s, 404, "Registration not found", u.ret.read, None)
          ELSE Answer(u.s, 500, "Failed to update registration with donation",
                      u.ret.read, None)
     ELSE Answer(u.s, 200, "Registration updated with donation info",
                 u.ret.read, u.ret.saved))

\* parseFloat on the amounts that request bodies carry, in thousandths; None
\* is NaN.
parseFloat(text) ==
  CASE text = "25" -> Some(25000)
    [] text = "1.996" -> Some(1996)
    [] text = "-5" -> Some(0 - 5000)
    [] OTHER -> None

\* POST /update-registration-donation, routes/donations.js 104-160: the
\* checks of lines 109-130, then the update.
UpdateDonationHandler(s, body, h) ==
  IF body.registrationId \in {Undefined, ""}
  THEN Answer(s, 400, "Registration ID is required", <<>>, None)
  ELSE IF parseFloat(body.donationAmount) = None
  THEN Answer(s, 400, "Invalid donation amount", <<>>, None)
  ELSE IF Val(parseFloat(body.donationAmount)) < 0
  THEN Answer(s, 400, "Negative donation amount not allowed", <<>>, None)
  ELSE UpdateDonationRoute(s, body.registrationId,
                           Val(parseFloat(body.donationAmount)),
                           body.stripeSessionId, h)

\* POST /store-passover-registration, routes/registrations.js 17-58: while
\* Edge Config is flagged unavailable testEdgeConfig is awaited first; the body
\* is handed to storeRegistration as it came.
StoreRoute(s, registration, h) ==
  With(IF s.avail THEN s ELSE testEdgeConfig(s, h).s, LAMBDA tested :
  With(storeRegistration(tested, registration, h), LAMBDA r :
     IF r.ret.outcome = "throw"
     THEN Answer(r.s, 500, "Failed to process registration", r.ret.read, None)
     ELSE Answer(r.s, 200, "Registration saved successfully",
                 r.ret.read, r.ret.saved)))

\* POST /create-checkout-session, routes/donations.js 14-54: present is the
\* set of body fields that have a value, stripeOk whether Stripe creates the
\* session.
CheckoutFields == {"donationAmount", "firstName", "lastName", "email"}

CheckoutRoute(s, present, stripeOk) ==
  IF ~(CheckoutFields \subseteq present)
  THEN Answer(s, 400, "Missing required fields for checkout session", <<>>, None)
  ELSE IF stripeOk
  THEN Answer(s, 200, "session", <<>>, None)
  ELSE Answer(s, 500, "Failed to create checkout session", <<>>, None)

\* ------------------------------------------------------------ observations
Tiers(writes) == [i \in 1..Len(writes) |-> writes[i].tier]

\* The tiers that stored the array R during the call.
Accepted(writes, R) ==
  {writes[i].tier : i \in {j \in 1..Len(writes) : writes[j].ok /\ writes[j].data = R}}

\* The calls of syncRegistrationsToBlob made one after the other without force
\* and within one sync interval of the first of them, and the Blob puts they
\* performed: calls made, puts completed, puts that succeeded, and the minute
\* of the first call.
NoRun == [calls |-> 0, puts |-> 0, okPuts |-> 0, since |-> 0]

\* What a call of the registration service or of a route was given.
NoInput ==
  [registrationId |-> Undefined, donationAmount |-> 0,
   stripeSessionId |-> Undefined, registration |-> None,
   amountText |-> Undefined, present |-> {}]

NoCall ==
  [op |-> "none", run |-> NoRun, n |-> 0, input |-> NoInput, outcome |-> "none",
   status |-> 0, value |-> None, read |-> <<>>, saved |-> None, arg |-> <<>>, success |-> TRUE, data |-> <<>>, src |-> "none",
   message |-> Undefined, tiers |-> <<>>, acc |-> {}, ecReq |-> FALSE,
   ecErr |-> FALSE, ecOk |-> FALSE, sizeErr |-> FALSE, skipped |-> FALSE,
   blobR |-> TRUE, localR |-> TRUE, client |-> Null, lastSaved |-> None]

\* The record of a completed call: op on arg, ended in state s with result ret.
Observed(op, arg, s, ret) ==
  [NoCall EXCEPT !.op = op, !.arg = arg, !.success = ret.success,
                 !.data = ret.data, !.src = ret.src, !.message = ret.message,
                 !.tiers = Tiers(SelectSeq(s.writes, LAMBDA w : op # "save" \/ w.data = arg)),
                 !.acc = Accepted(s.writes, arg),
                 !.ecReq = s.ecReq, !.ecErr = s.ecErr, !.ecOk = s.ecOk,
                 !.sizeErr = s.sizeErr, !.skipped = s.skipped]

\* The record of a completed call of the registration service or of a route.
ObservedService(op, input, r) ==
  [Observed(op, IF r.ret.saved = None THEN <<>> ELSE Val(r.ret.saved), r.s,
            [success |-> TRUE, data |-> <<>>, src |-> "none",
             message |-> r.ret.message])
     EXCEPT !.n = call.n + 1, !.input = input, !.outcome = r.ret.outcome,
            !.status = IF r.ret.outcome = "answer" THEN r.ret.status ELSE 0,
            !.value = r.ret.value, !.read = r.ret.read, !.saved = r.ret.saved]

\* ------------------------------------------------------------------ actions
Procs == 1..NumRequests

Idle == [pc |-> "idle", registration |-> NewRegistration("abc123"),
         snapshot |-> <<>>, registrations |-> <<>>]

\* The module state when the process has loaded the modules, lines 12-23.
ModuleLoaded ==
  /\ edgeConfigClient = Null
  /\ edgeConfigAvailable = FALSE
  /\ edgeConfigFailureCount = 0
  /\ lastSyncTime = None
  /\ syncInProgress = FALSE
  /\ currentBlobPathname = Null
  /\ localFile = <<>>
  /\ blobStore = NoBlob
  /\ edgeStore \in {NoItem, Some(<<LegacyRegistration("abc123")>>)}
  /\ blobEnabled \in BOOLEAN
  /\ syncs = <<>>
  /\ now = 0
  /\ call = NoCall
  /\ reqs = [p \in Procs |-> Idle]

Init == ModuleLoaded /\ fetching = NoFetch

\* The answers a call started in the current state can tell apart: a read of
\* Blob or of the local file happens after a failed Edge Config read or at the
\* failure threshold, an Edge Config read in a save only while Edge Config is
\* flagged unavailable, a direct Blob put in a save only at the threshold.
HealthsNow ==
  {h \in Healths :
     /\ h.kind = "sdk"
     /\ h.sdk = (h.ecR = "ok")}

AtThreshold == edgeConfigFailureCount >= EDGE_CONFIG_FAILURE_THRESHOLD /\ blobEnabled

ReadHealths ==
  {h \in HealthsNow :
     /\ h.ecW = "ok" /\ h.blobW = "ok" /\ h.localW
     /\ (h.ecR = "ok" /\ ~AtThreshold) => h.blobR
     /\ ~blobEnabled => h.blobR}

SaveHealths ==
  {h \in HealthsNow :
     /\ edgeConfigAvailable => h.ecR = "ok"
     /\ h.ecR = "ok" => (h.blobR /\ h.localR)
     /\ ~blobEnabled => h.blobR
     /\ ~AtThreshold => h.blobW = "ok"}

Capped ==
  /\ edgeConfigFailureCount <= MaxFailures
  /\ Len(syncs) < MaxSyncs

GetRegistrations ==
  /\ Capped
  /\ \E h \in ReadHealths :
       With(getRegistrations(Cur, h), LAMBDA r :
          /\ Commit(r.s)
          /\ call' = [Observed("get", <<>>, r.s, r.ret)
                        EXCEPT !.blobR = h.blobR, !.localR = h.localR])
  /\ UNCHANGED <<reqs, fetching>>

SaveRegistrations ==
  /\ Capped
  /\ \E registrations \in Arrays, h \in SaveHealths :
       With(saveRegistrations(Cur, registrations, h), LAMBDA r :
          /\ Commit(r.s)
          /\ call' = Observed("save", registrations, r.s,
                               r.ret @@ [data |-> <<>>, src |-> "none"]))
  /\ UNCHANGED <<reqs, fetching>>

TestEdgeConfig ==
  /\ Capped
  /\ \E h \in ReadHealths :
       With(testEdgeConfig(Cur, h), LAMBDA r :
          /\ Commit(r.s)
          /\ call' = Observed("test", <<>>, r.s,
                               [success |-> r.ret, data |-> <<>>, src |-> "none",
                                message |-> Undefined]))
  /\ UNCHANGED <<reqs, fetching>>

SetFailureCount ==
  /\ \E count \in {0, 1, EDGE_CONFIG_FAILURE_THRESHOLD + 1} :
       LET r == setFailureCount(Cur, count)
       IN /\ Commit(r.s)
          /\ call' = Observed("setFailureCount", <<>>, r.s,
                               [success |-> TRUE, data |-> <<>>, src |-> "none",
                                message |-> Undefined])
  /\ UNCHANGED <<reqs, fetching>>

\* ------------------------------------------------- the raw Edge Config read
\* getRegistrationsFromEdgeConfig called while there is no client (line 215
\* is false): the raw read of lines 252-262 goes through fetchWithRetry.
Backoffs == {100, 300}

\* Blob and the local file work while the read runs.
AllWorking ==
  [ecR |-> "ok", ecW |-> "ok", sdk |-> TRUE, blobR |-> TRUE, blobW |-> "ok",
   localR |-> TRUE, localW |-> TRUE, kind |-> "sdk"]

InitFetch ==
  /\ ModuleLoaded
  /\ fetching \in {FetchCall(retries, backoff) :
                      retries \in 0..MaxRetries, backoff \in Backoffs}

\* What a fetch of the item can settle with: the service answers (200 with
\* the item, 404 without it), answers 500, or the connection fails.
FetchOutcomes ==
  {Response(IF edgeStore = NoItem THEN 404 ELSE 200), Response(500)}
    \cup NetworkErrors

Module == <<edgeConfigClient, edgeConfigAvailable, edgeConfigFailureCount,
            lastSyncTime, syncInProgress, currentBlobPathname, localFile,
            blobStore, edgeStore, blobEnabled, syncs, now, call, reqs>>

FetchAttempt ==
  /\ fetching.pc = "fetch"
  /\ \E outcome \in FetchOutcomes : fetching' = FetchSettles(fetching, outcome)
  /\ UNCHANGED Module

BackoffTimer ==
  /\ fetching.pc = "wait"
  /\ fetching' = BackoffElapses(fetching)
  /\ UNCHANGED Module

\* Lines 264-315 of getRegistrationsFromEdgeConfig, once fetchWithRetry has
\* returned a response or thrown: a response that is ok or 404 is the answer,
\* any other response is turned into an error, and every error ends in the
\* catch block that reads Blob and the local file.
RawReadSettled(s, f, h) ==
  IF f.pc = "returned" /\ Val(f.result).status \in {200, 404}
  THEN EdgeReadAnswered([s EXCEPT !.ecReq = TRUE], h)
  ELSE EdgeReadFailed([s EXCEPT !.ecReq = TRUE, !.ecErr = TRUE], h)

RawReadResumes ==
  /\ fetching.pc \in {"returned", "thrown"}
  /\ With(RawReadSettled(Cur, fetching, AllWorking), LAMBDA r :
        /\ Commit(r.s)
        /\ call' = Observed("rawRead", <<>>, r.s,
                             [success |-> TRUE, data |-> r.ret.data,
                              src |-> r.ret.src, message |-> Undefined]))
  /\ fetching' = [fetching EXCEPT !.pc = "done"]
  /\ UNCHANGED reqs

\* ------------------------------------------------ calls with either client
\* The tier answers of a call whatever createClient does when it is asked
\* for a client (kind): Edge Config answers, refuses a write on size or is
\* down, Blob and the local file work.
ClientHealths ==
  {h \in Healths :
     /\ h.sdk = (h.ecR = "ok")
     /\ (h.ecW = "down") = (h.ecR = "down")
     /\ h.blobR /\ h.blobW = "ok" /\ h.localR /\ h.localW}

\* The record of a call that started with the client edgeConfigClient.
ObservedClient(op, arg, s, ret) ==
  [Observed(op, arg, s, ret) EXCEPT !.client = edgeConfigClient]

ClientGetRegistrations ==
  /\ Capped
  /\ \E h \in ClientHealths :
       With(getRegistrations(Cur, h), LAMBDA r :
          /\ Commit(r.s)
          /\ call' = ObservedClient("get", <<>>, r.s, r.ret))
  /\ UNCHANGED <<reqs, fetching>>

ClientSaveRegistrations ==
  /\ Capped
  /\ \E registrations \in Arrays, h \in ClientHealths :
       With(saveRegistrations(Cur, registrations, h), LAMBDA r :
          /\ Commit(r.s)
          /\ call' = ObservedClient("save", registrations, r.s,
                                     r.ret @@ [data |-> <<>>, src |-> "none"]))
  /\ UNCHANGED <<reqs, fetching>>

\* The explicit initialisation calls the module exports.
InitializeEdgeConfig ==
  /\ Capped
  /\ \E h \in ClientHealths :
       With(initializeEdgeConfig(Cur, h), LAMBDA r :
          /\ Commit(r.s)
          /\ call' = ObservedClient("initialize", <<>>, r.s,
                                     [success |-> r.ret, data |-> <<>>,
                                      src |-> "none", message |-> Undefined]))
  /\ UNCHANGED <<reqs, fetching>>

ClientTestEdgeConfig ==
  /\ Capped
  /\ \E h \in ClientHealths :
       With(testEdgeConfig(Cur, h), LAMBDA r :
          /\ Commit(r.s)
          /\ call' = ObservedClient("test", <<>>, r.s,
                                     [success |-> r.ret, data |-> <<>>,
                                      src |-> "none", message |-> Undefined]))
  /\ UNCHANGED <<reqs, fetching>>

\* The run after a call of syncRegistrationsToBlob: a call without force made
\* while no other invocation is in flight continues the run if it is the
\* second call and falls within the interval, and starts a new run otherwise.
RunAfterCall(force) ==
  IF force \/ syncs # <<>> THEN NoRun
  ELSE IF call.run.calls = 1 /\ now - call.run.since < SyncIntervalMinutes
       THEN [call.run EXCEPT !.calls = 2]
       ELSE [NoRun EXCEPT !.calls = 1, !.since = now]

\* The run after an invocation resumed: the puts that completed are counted.
RunAfterResume(writes) ==
  IF call.run.calls = 0 THEN NoRun
  ELSE [call.run EXCEPT
          !.puts = @ + Len(SelectSeq(writes, LAMBDA w : w.tier = "blob")),
          !.okPuts = @ + Len(SelectSeq(writes, LAMBDA w : w.tier = "blob" /\ w.ok))]

\* A direct call of the exported syncRegistrationsToBlob.
SyncRegistrationsToBlob ==
  /\ Capped
  /\ \E registrations \in {None} \cup {Some(a) : a \in Arrays}, force \in BOOLEAN :
       LET r == syncRegistrationsToBlob(Cur, registrations, force)
       IN /\ Commit(r.s)
          /\ call' = [Observed("sync", <<>>, r.s,
                                [success |-> r.ret, data |-> <<>>, src |-> "none",
                                 message |-> Undefined])
                        EXCEPT !.run = RunAfterCall(force)]
  /\ UNCHANGED <<reqs, fetching>>

\* An invocation of syncRegistrationsToBlob resumes after an await: after the
\* fetch of lines 254-279, after the put on the known pathname (blob-storage
\* lines 58-73) or after the put on the base filename (lines 77-96).
Remove(q, i) == [j \in 1..(Len(q) - 1) |-> IF j < i THEN q[j] ELSE q[j + 1]]

\* Variant of SyncResume: a failed fetch leaves the reentrancy flag set.
SyncResumeKeepsFlag(s, i, ok) ==
  LET t == s.syncs[i]
      rest == Remove(s.syncs, i)
      data == IF s.ec = NoItem THEN <<>> ELSE Val(s.ec)
      ended(x) == [x EXCEPT !.syncs = rest, !.inProg = FALSE]
  IN IF t.pc = "fetch"
     THEN IF ok
          THEN [s EXCEPT !.syncs[i] = [pc |-> IF s.path # Null THEN "putExisting" ELSE "putNew",
                                       regs |-> Some(data)]]
          ELSE [s EXCEPT !.syncs = rest]
     ELSE IF t.pc = "putExisting"
     THEN IF ok
          THEN ended(PutExisting(s, Val(t.regs), TRUE).s)
          ELSE [PutExisting(s, Val(t.regs), FALSE).s EXCEPT !.syncs[i].pc = "putNew"]
     ELSE ended(PutNew(s, Val(t.regs), ok).s)

SyncResume(s, i, ok) ==
  LET t == s.syncs[i]
      rest == Remove(s.syncs, i)
      data == IF s.ec = NoItem THEN <<>> ELSE Val(s.ec)
      ended(x) == [x EXCEPT !.syncs = rest, !.inProg = FALSE]
  IN IF t.pc = "fetch"
     THEN IF ok
          THEN [s EXCEPT !.syncs[i] = [pc |-> IF s.path # Null THEN "putExisting" ELSE "putNew",
                                       regs |-> Some(data)]]
          ELSE ended(s)
     ELSE IF t.pc = "putExisting"
     THEN IF ok
          THEN ended(PutExisting(s, Val(t.regs), TRUE).s)
          ELSE [PutExisting(s, Val(t.regs), FALSE).s EXCEPT !.syncs[i].pc = "putNew"]
     ELSE ended(PutNew(s, Val(t.regs), ok).s)

SyncStep ==
  /\ \E i \in 1..Len(syncs), ok \in BOOLEAN :
       LET s == SyncResume(Cur, i, ok)
       IN /\ Commit(s)
          /\ call' = [Observed("resume", <<>>, s,
                                [success |-> TRUE, data |-> <<>>, src |-> "none",
                                 message |-> Undefined])
                        EXCEPT !.run = RunAfterResume(s.writes), !.n = call.n]
  /\ UNCHANGED <<reqs, fetching>>

\* ------------------------------------------------ saves with Blob healthy
\* saveRegistrations calls while Blob and the local file work and Edge Config
\* answers or is down, their mirrors completing at any time in between;
\* lastSaved keeps the array of the last call.
MirrorHealths ==
  {h \in HealthsNow :
     /\ h.blobR /\ h.blobW = "ok" /\ h.localR /\ h.localW
     /\ (h.ecW = "down") = (h.ecR = "down")}

MirroredSave ==
  /\ Capped
  /\ \E registrations \in Arrays, h \in MirrorHealths :
       With(saveRegistrations(Cur, registrations, h), LAMBDA r :
          /\ Commit(r.s)
          /\ call' = [Observed("save", registrations, r.s,
                                r.ret @@ [data |-> <<>>, src |-> "none"])
                        EXCEPT !.lastSaved = Some(registrations)])
  /\ UNCHANGED <<reqs, fetching>>

\* A mirror in flight resumes after an await, its Blob call having succeeded.
MirrorCompletes ==
  /\ \E i \in 1..Len(syncs) :
       With(SyncResume(Cur, i, TRUE), LAMBDA s :
          /\ Commit(s)
          /\ call' = [Observed("resume", <<>>, s,
                                [success |-> TRUE, data |-> <<>>, src |-> "none",
                                 message |-> Undefined])
                        EXCEPT !.lastSaved = call.lastSaved])
  /\ UNCHANGED <<reqs, fetching>>

TickMinutes == SyncIntervalMinutes \div 2

Tick ==
  /\ now < MaxTicks * TickMinutes
  /\ now' = now + TickMinutes
  /\ call' = [NoCall EXCEPT !.op = "tick", !.run = call.run]
  /\ UNCHANGED <<edgeConfigClient, edgeConfigAvailable, edgeConfigFailureCount,
                 lastSyncTime, syncInProgress, currentBlobPathname, localFile,
                 blobStore, edgeStore, blobEnabled, syncs, reqs, fetching>>

\* A request enters storeRegistration and waits for the collection.  Requests
\* are numbered in their order of arrival.
StoreRead(p) ==
  /\ Capped
  /\ reqs[p].pc = "idle"
  /\ \A q \in Procs : q < p => reqs[q].pc # "idle"
  /\ \E id \in RegistrationIds, h \in ReadHealths :
       With(storeRegistrationRead(Cur, NewRegistration(id), h), LAMBDA r :
          /\ Commit(r.s)
          /\ reqs' = [reqs EXCEPT ![p] = r.ret]
          /\ UNCHANGED fetching
          /\ call' = [NoCall EXCEPT !.op = "storeRead", !.data = r.ret.snapshot])

\* The request resumes with the collection it read, and saves.
StoreWrite(p) ==
  /\ Capped
  /\ reqs[p].pc = "save"
  /\ \E h \in SaveHealths :
       With(storeRegistrationWrite(Cur, reqs[p], h), LAMBDA r :
          /\ Commit(r.s)
          /\ reqs' = [reqs EXCEPT ![p] = r.ret]
          /\ UNCHANGED fetching
          /\ call' = Observed("store", r.ret.registrations, r.s,
                               [success |-> TRUE, data |-> <<>>,
                                src |-> "none", message |-> Undefined]))

\* The request bodies of POST /store-passover-registration: with or without
\* a registrationId, with or without values in the fields the service stamps.
CallerRegistrations ==
  {[registrationId |-> id, hasDonated |-> d[1], donationAmount |-> d[2],
    registrationDate |-> d[3], stripeSessionId |-> Undefined,
    donationDate |-> Undefined] :
     id \in RegistrationIds \cup {Undefined},
     d \in {<<Undefined, Undefined, Undefined>>, <<"true", "25.00", "">>}}

SearchIds == RegistrationIds \cup {"Abc-123", "zzz"}

SessionIds == {Undefined, "cs_test_1"}

\* The tier answers a call of the registration service is run with: Edge
\* Config answers or is down, Blob and the local file work.
ServiceHealths ==
  {h \in HealthsNow :
     /\ h.ecW = h.ecR
     /\ h.blobR /\ h.blobW = "ok" /\ h.localR /\ h.localW}

\* Collections the service has left behind: records as storeRegistration and
\* updateRegistrationDonation leave them.
StoredRecords ==
  {NewRegistration(id) : id \in RegistrationIds \cup {Undefined}}
    \cup {WithDonation(NewRegistration("abc123"), 25000, "cs_test_1")}

Collections == UNION {[1..n -> StoredRecords] : n \in 0..MaxRecords}

\* The state after saveRegistrations stored a collection in every tier and
\* the mirror completed.
InitService ==
  /\ edgeConfigClient = "sdk"
  /\ edgeConfigAvailable = TRUE
  /\ edgeConfigFailureCount = 0
  /\ blobEnabled \in BOOLEAN
  /\ lastSyncTime = IF blobEnabled THEN Some(0) ELSE None
  /\ syncInProgress = FALSE
  /\ currentBlobPathname = IF blobEnabled THEN "path" ELSE Null
  /\ localFile \in Collections
  /\ blobStore = IF blobEnabled THEN Some(localFile) ELSE NoBlob
  /\ edgeStore = Some(localFile)
  /\ syncs = <<>>
  /\ now = 0
  /\ call = NoCall
  /\ reqs = [p \in Procs |-> Idle]
  /\ fetching = NoFetch

MoreCalls == call.n < MaxServiceCalls

\* The collection is not grown beyond MaxRecords records.
Room(r) == Len(r.ret.read) < MaxRecords

StoreRegistration ==
  /\ Capped /\ MoreCalls
  /\ \E registration \in CallerRegistrations, h \in ServiceHealths :
       With(storeRegistration(Cur, registration, h), LAMBDA r :
          /\ Room(r)
          /\ Commit(r.s)
          /\ call' = ObservedService("storeRegistration",
                         [NoInput EXCEPT !.registration = Some(registration)], r))
  /\ UNCHANGED <<reqs, fetching>>

GetRegistrationById ==
  /\ Capped /\ MoreCalls
  /\ \E registrationId \in SearchIds, h \in ServiceHealths :
       With(getRegistrationById(Cur, registrationId, h), LAMBDA r :
          /\ Commit(r.s)
          /\ call' = ObservedService("getRegistrationById",
                         [NoInput EXCEPT !.registrationId = registrationId], r))
  /\ UNCHANGED <<reqs, fetching>>

UpdateRegistrationDonation ==
  /\ Capped /\ MoreCalls
  /\ \E registrationId \in SearchIds, donationAmount \in Amounts,
        stripeSessionId \in SessionIds, h \in ServiceHealths :
       With(updateRegistrationDonation(Cur, registrationId, donationAmount,
                                       stripeSessionId, h), LAMBDA r :
          /\ Commit(r.s)
          /\ call' = ObservedService("updateRegistrationDonation",
                         [NoInput EXCEPT !.registrationId = registrationId,
                                         !.donationAmount = donationAmount,
                                         !.stripeSessionId = stripeSessionId], r))
  /\ UNCHANGED <<reqs, fetching>>

DeleteRegistration ==
  /\ Capped /\ MoreCalls
  /\ \E registrationId \in SearchIds, h \in ServiceHealths :
       With(deleteRegistration(Cur, registrationId, h), LAMBDA r :
          /\ Commit(r.s)
          /\ call' = ObservedService("deleteRegistration",
                         [NoInput EXCEPT !.registrationId = registrationId], r))
  /\ UNCHANGED <<reqs, fetching>>

DeleteRegistrationRequest ==
  /\ Capped /\ MoreCalls
  /\ \E registrationId \in SearchIds, h \in ServiceHealths :
       With(DeleteRoute(Cur, registrationId, h), LAMBDA r :
          /\ Commit(r.s)
          /\ call' = ObservedService("DELETE /delete-passover-registration",
                         [NoInput EXCEPT !.registrationId = registrationId], r))
  /\ UNCHANGED <<reqs, fetching>>

UpdateDonationRequest ==
  /\ Capped /\ MoreCalls
  /\ \E registrationId \in SearchIds, donationAmount \in Amounts,
        stripeSessionId \in SessionIds, h \in ServiceHealths :
       With(UpdateDonationRoute(Cur, registrationId, donationAmount,
                                stripeSessionId, h), LAMBDA r :
          /\ Commit(r.s)
          /\ call' = ObservedService("POST /update-registration-donation",
                         [NoInput EXCEPT !.registrationId = registrationId,
                                         !.donationAmount = donationAmount,
                                         !.stripeSessionId = stripeSessionId], r))
  /\ UNCHANGED <<reqs, fetching>>

\* ------------------------------------------------------- request bodies
\* The tier answers a request is served with: every tier works, Edge Config
\* is down, or every write fails.
RequestHealths ==
  {h \in HealthsNow :
     /\ h.ecW = h.ecR /\ h.blobR /\ h.localR
     /\ (h.blobW = "ok") = h.localW /\ h.blobW # "updfail"
     /\ ~h.localW => h.ecW = "down"}

AmountTexts == {Undefined, "abc", "-5", "25", "1.996"}

DonationBodies ==
  [registrationId : {Undefined, "", "abc123", "zzz"},
   donationAmount : AmountTexts, stripeSessionId : {"cs_test_1"}]

StoreRegistrationRequest ==
  /\ Capped /\ MoreCalls
  /\ \E registration \in CallerRegistrations, h \in RequestHealths :
       With(StoreRoute(Cur, registration, h), LAMBDA r :
          /\ Room(r)
          /\ Commit(r.s)
          /\ call' = ObservedService("POST /store-passover-registration",
                         [NoInput EXCEPT !.registration = Some(registration)], r))
  /\ UNCHANGED <<reqs, fetching>>

UpdateDonationBodyRequest ==
  /\ Capped /\ MoreCalls
  /\ \E body \in DonationBodies, h \in ServiceHealths :
       With(UpdateDonationHandler(Cur, body, h), LAMBDA r :
          /\ Commit(r.s)
          /\ call' = ObservedService("POST /update-registration-donation",
                         [NoInput EXCEPT !.registrationId = body.registrationId,
                                         !.amountText = body.donationAmount,
                                         !.stripeSessionId = body.stripeSessionId], r))
  /\ UNCHANGED <<reqs, fetching>>

CreateCheckoutSessionRequest ==
  /\ Capped /\ MoreCalls
  /\ \E present \in SUBSET CheckoutFields, stripeOk \in BOOLEAN :
       With(CheckoutRoute(Cur, present, stripeOk), LAMBDA r :
          /\ Commit(r.s)
          /\ call' = ObservedService("POST /create-checkout-session",
                         [NoInput EXCEPT !.present = present], r))
  /\ UNCHANGED <<reqs, fetching>>

\* The routes that take a request body, one request at a time.
NextRoutes ==
  \/ StoreRegistrationRequest
  \/ UpdateDonationBodyRequest
  \/ CreateCheckoutSessionRequest
  \/ SyncStep

SpecRoutes == InitService /\ [][NextRoutes]_vars

\* The registration service and its routes, one call at a time.
NextService ==
  \/ StoreRegistration
  \/ GetRegistrationById
  \/ UpdateRegistrationDonation
  \/ DeleteRegistration
  \/ DeleteRegistrationRequest
  \/ UpdateDonationRequest
  \/ SyncStep

SpecService == InitService /\ [][NextService]_vars

\* The facade: calls made one after the other, mirrors completing in between.
Next ==
  \/ GetRegistrations
  \/ SaveRegistrations
  \/ SetFailureCount
  \/ TestEdgeConfig
  \/ SyncStep

Spec == Init /\ [][Next]_vars

\* The mirror: direct calls of syncRegistrationsToBlob while time passes.
NextSync ==
  \/ SyncRegistrationsToBlob
  \/ SyncStep
  \/ Tick

SpecSync == Init /\ [][NextSync]_vars

\* Every awaited fetch and put of a mirror settles.
SpecSyncLive == SpecSync /\ WF_vars(SyncStep)

\* The registration service: storeRegistration requests that may overlap.
NextStore ==
  \/ \E p \in Procs : StoreRead(p)
  \/ \E p \in Procs : StoreWrite(p)
  \/ SyncStep

SpecStore == Init /\ [][NextStore]_vars

\* Calls of the storage module with either kind of client.
NextClient ==
  \/ ClientGetRegistrations
  \/ ClientSaveRegistrations
  \/ InitializeEdgeConfig
  \/ ClientTestEdgeConfig
  \/ SetFailureCount
  \/ SyncStep

SpecClient == Init /\ [][NextClient]_vars

\* Saves and their mirrors with every tier working.
NextMirror ==
  \/ MirroredSave
  \/ MirrorCompletes

SpecMirror == Init /\ [][NextMirror]_vars

\* One raw read of the Edge Config item, retries and backoff included.
NextFetch ==
  \/ FetchAttempt
  \/ BackoffTimer
  \/ RawReadResumes
  \/ SyncStep

SpecFetch == InitFetch /\ [][NextFetch]_vars

\* Every fetch settles and every timer fires.
SpecFetchLive ==
  SpecFetch /\ WF_vars(FetchAttempt) /\ WF_vars(BackoffTimer)

\* ------------------------------------------------------------------ claims
Range(q) == {q[i] : i \in 1..Len(q)}

FacadeOps == {"get", "save"}

\* Whether a Blob read made by the last call yields data (success and a
\* non-empty array).
BlobYields ==
  blobEnabled /\ call.blobR /\ blobStore # NoBlob /\ Len(Val(blobStore)) > 0

\* C1: a saveRegistrations(R) that at least one tier accepted, followed
\* directly by getRegistrations(), returns data with the registrationIds of R.
\* (Checked in the form most favourable to the claim: every tier that
\* accepted the array still answers reads during the getRegistrations call.)
C1_RoundTrip ==
  [][(/\ call.op = "save" /\ call.acc # {} /\ call'.op = "get"
      /\ "ec" \in call.acc => ~call'.ecErr
      /\ "blob" \in call.acc => call'.blobR
      /\ "local" \in call.acc => call'.localR)
       => IdSet(call'.data) = IdSet(call.arg)]_vars

\* C2: a getRegistrations whose Edge Config read failed returns the Blob
\* array if mirroring is enabled and the Blob read yields data, and the local
\* file's array otherwise; local data is returned in no other case.
C2_ReadFallbackOrder ==
  /\ (call.op = "get" /\ call.ecErr) =>
        IF BlobYields
        THEN call.src = "blob" /\ call.data = Val(blobStore)
        ELSE call.src = "local" /\ call.data = IF call.localR THEN localFile ELSE <<>>
  /\ (call.op = "get" /\ call.src = "local") => (call.ecErr /\ ~BlobYields)

C2_Witness ==
  /\ call.op = "get" /\ call.ecErr
  /\ call.src = "blob" /\ call.data # localFile /\ Len(localFile) > 0

\* C3: a saveRegistrations call in which some tier stored the array resolves
\* with success = true.
C3_AnyTierIsSuccess ==
  (call.op = "save" /\ call.acc # {}) => call.success

C3_Witness ==
  call.op = "save" /\ call.acc = {"blob"} /\ call.success /\ call.ecErr

\* C4: in a saveRegistrations call every Blob write, mirror start and Edge
\* Config write attempt of the array comes after a local-file write attempt.
C4_LocalWriteFirst ==
  call.op = "save" =>
    \A i \in 1..Len(call.tiers) :
      call.tiers[i] \in {"blob", "mirror", "ec"} =>
        \E j \in 1..(i - 1) : call.tiers[j] = "local"

C4_Witness ==
  call.op = "save" /\ {"blob", "mirror", "ec"} \subseteq Range(call.tiers)

\* C5 as stated: a getRegistrations call started with the counter at or above
\* the threshold makes no Edge Config request and is served from Blob or the
\* local file.
C5_Original ==
  [][(call'.op = "get" /\ edgeConfigFailureCount >= EDGE_CONFIG_FAILURE_THRESHOLD)
       => (~call'.ecReq /\ call'.src \in {"blob", "local"})]_vars

\* C5 amended: a getRegistrations call started with the counter at or above
\* the threshold makes no Edge Config request exactly when mirroring is
\* enabled and the Blob read succeeds; it is then served from Blob and resets
\* the counter to 0 itself.
C5_BlobFirstAtThreshold ==
  [][(call'.op = "get" /\ edgeConfigFailureCount >= EDGE_CONFIG_FAILURE_THRESHOLD)
       => LET blobAnswers == blobEnabled /\ call'.blobR /\ blobStore # NoBlob
          IN /\ ~call'.ecReq <=> blobAnswers
             /\ blobAnswers => /\ call'.src = "blob"
                                /\ call'.data = Val(blobStore)
                                /\ edgeConfigFailureCount' = 0]_vars

C5_Witness ==
  call.op = "get" /\ ~call.ecReq /\ call.src = "blob" /\ edgeConfigFailureCount = 0

\* C6: a getRegistrations or saveRegistrations call in which the Edge Config
\* read or write raised an error (SDK and raw HTTP both failed) leaves the
\* counter one higher than it was.
C6_FailureCounted ==
  [][(call'.op \in FacadeOps /\ call'.ecErr)
       => edgeConfigFailureCount' = edgeConfigFailureCount + 1]_vars

\* C7: after a getRegistrations or saveRegistrations call that completed an
\* Edge Config read or write, the counter is 0.
C7_SuccessResets ==
  (call.op \in FacadeOps /\ call.ecOk) => edgeConfigFailureCount = 0

C7_Witness ==
  /\ call.op = "save" /\ call.ecOk /\ "blob" \in Range(call.tiers)
  /\ edgeConfigFailureCount = 0

\* C8: a saveRegistrations call whose Edge Config write failed on the size
\* limit resolves with success = true and leaves Edge Config flagged
\* unavailable, and the next getRegistrations or saveRegistrations call does
\* not flag it available again.
C8_SizeLimitSticks ==
  [][/\ (call'.op = "save" /\ call'.sizeErr)
          => (call'.success /\ ~edgeConfigAvailable')
     /\ (call.op = "save" /\ call.sizeErr /\ ~edgeConfigAvailable
           /\ call'.op = "get")
          => ~edgeConfigAvailable']_vars

\* C9: when two storeRegistration calls read the same snapshot, the one that
\* writes last replaces the stored collection by its own array, so the
\* registration appended by the other is not in it although both resolved.
C9_LostUpdate ==
  \A p, q \in Procs :
    (/\ p # q /\ reqs[p].pc = "done" /\ reqs[q].pc = "done"
     /\ reqs[p].snapshot = reqs[q].snapshot
     /\ reqs[p].registration.registrationId # reqs[q].registration.registrationId
     /\ reqs[q].registration.registrationId \notin IdSet(reqs[q].snapshot)
     /\ call.op = "store" /\ call.arg = reqs[p].registrations)
    => /\ "ec" \in call.acc =>
            reqs[q].registration.registrationId \notin IdSet(Val(edgeStore))
       /\ "local" \in call.acc =>
            reqs[q].registration.registrationId \notin IdSet(localFile)

C9_Witness ==
  \E p, q \in Procs :
    /\ p # q /\ reqs[p].pc = "done" /\ reqs[q].pc = "done"
    /\ reqs[p].snapshot = reqs[q].snapshot
    /\ call.op = "store" /\ call.arg = reqs[p].registrations
    /\ call.acc = {"local", "ec"}
    /\ edgeStore = Some(reqs[p].registrations) /\ localFile = reqs[p].registrations
    /\ reqs[p].registration.registrationId \in IdSet(localFile)
    /\ reqs[q].registration.registrationId \notin IdSet(localFile)

\* C10: at most one syncRegistrationsToBlob invocation is between setting and
\* clearing syncInProgress, and an invocation started while another is in
\* progress returns false without starting a Blob write.
C10_SyncMutex ==
  /\ [](Len(syncs) <= 1 /\ (Len(syncs) = 1 => syncInProgress))
  /\ [][(call'.op = "sync" /\ Len(syncs) >= 1)
          => /\ call'.skipped /\ ~call'.success
             /\ syncs' = syncs /\ blobStore' = blobStore
             /\ "mirror" \notin Range(call'.tiers)]_vars

C10_Witness ==
  call.op = "sync" /\ call.skipped /\ Len(syncs) = 1 /\ syncInProgress

\* C11 as stated: two consecutive calls of syncRegistrationsToBlob without
\* force within the sync interval perform at most one Blob put in total.
C11_Original ==
  call.run.calls \in {1, 2} => call.run.puts <= 1

\* C11 amended: two consecutive calls of syncRegistrationsToBlob without force
\* within the sync interval perform at most one Blob put that succeeds, and
\* once a put of the run has succeeded no further put is performed; a put that
\* failed is followed by another put.
C11_OneSuccessfulPut ==
  /\ [](call.run.calls \in {1, 2} => call.run.okPuts <= 1)
  /\ [][(call.run.okPuts = 1 /\ call'.run.calls >= call.run.calls
          /\ call'.run.since = call.run.since)
           => (call'.run.puts = call.run.puts /\ blobStore' = blobStore)]_vars

C11_Witness ==
  /\ call.op = "sync" /\ call.run.calls = 2 /\ ~call.success /\ ~call.skipped
  /\ call.run.puts = 1 /\ call.run.okPuts = 1 /\ syncs = <<>>

\* ------------------------------------------------- registration service
ServiceOps ==
  {"storeRegistration", "getRegistrationById", "updateRegistrationDonation",
   "deleteRegistration"}

\* The first index of a record of c whose registrationId is id, 0 if none.
FirstWithId(c, id) ==
  IF \E i \in 1..Len(c) : c[i].registrationId = id
  THEN CHOOSE i \in 1..Len(c) :
         /\ c[i].registrationId = id
         /\ \A j \in 1..(i - 1) : c[j].registrationId # id
  ELSE 0

\* C12: storeRegistration saves the collection it read with exactly one
\* record appended; that record is the caller's with hasDonated false,
\* donationAmount "0.00" and a non-empty registrationDate, whatever the caller
\* sent in those fields; the records read are kept unchanged and in order.
C12_StoreAppendsStamped ==
  call.op = "storeRegistration" =>
    /\ call.outcome = "return" /\ call.saved # None
    /\ LET saved == Val(call.saved)
           sent == Val(call.input.registration)
           last == saved[Len(saved)]
       IN /\ Len(saved) = Len(call.read) + 1
          /\ SubSeq(saved, 1, Len(call.read)) = call.read
          /\ last.hasDonated = "false" /\ last.donationAmount = "0.00"
          /\ last.registrationDate \notin {Undefined, ""}
          /\ last.registrationId = sent.registrationId
          /\ call.value = Some(last)
          /\ localFile = saved

C12_Witness ==
  /\ call.op = "storeRegistration" /\ Len(call.read) >= 1
  /\ Val(call.input.registration).hasDonated = "true"
  /\ Val(call.input.registration).registrationDate = ""
  /\ Val(call.value).hasDonated = "false"

\* C13: getRegistrationById returns the record whose registrationId equals
\* the id when one exists, otherwise the first record whose registrationId
\* equals it after removing hyphens and lower-casing both, otherwise null; it
\* returns for every stored collection and every id.
C13_FlexibleLookup ==
  call.op = "getRegistrationById" =>
    LET id == call.input.registrationId
        exact == FirstWithId(call.read, id)
        flex == {i \in 1..Len(call.read) :
                   /\ call.read[i].registrationId # Undefined
                   /\ NormalizeId(call.read[i].registrationId) = NormalizeId(id)}
    IN /\ call.outcome = "return"
       /\ call.value = IF exact # 0 THEN Some(call.read[exact])
                       ELSE IF flex # {} THEN Some(call.read[First(flex)])
                       ELSE None

\* C14: deleting an id that no stored registration has fails in
\* deleteRegistration, is answered 404 'Registration not found' by the DELETE
\* route, and leaves the collection of every tier unchanged.  (Checked on
\* collections in which every record has a registrationId.)
C14_DeleteUnknownId ==
  [][(/\ FirstWithId(call'.read, call'.input.registrationId) = 0
      /\ \A i \in 1..Len(call'.read) : call'.read[i].registrationId # Undefined)
       => /\ call'.op = "deleteRegistration" =>
               (call'.outcome = "throw" /\ call'.saved = None)
          /\ call'.op = "DELETE /delete-passover-registration" =>
               (call'.status = 404 /\ call'.message = "Registration not found")
          /\ call'.op \in {"deleteRegistration", "DELETE /delete-passover-registration"} =>
               (localFile' = localFile /\ blobStore' = blobStore
                /\ edgeStore' = edgeStore)]_vars

\* C15: deleteRegistration of a stored id saves the collection it read
\* without the first record whose registrationId equals the id: one record
\* fewer, every other record unchanged and in the same order.
C15_DeleteRemovesFirst ==
  (call.op = "deleteRegistration"
     /\ FirstWithId(call.read, call.input.registrationId) # 0) =>
    LET k == FirstWithId(call.read, call.input.registrationId)
    IN /\ call.outcome = "return" /\ call.saved # None
       /\ Len(Val(call.saved)) = Len(call.read) - 1
       /\ \A j \in 1..(Len(call.read) - 1) :
            Val(call.saved)[j] = IF j < k THEN call.read[j] ELSE call.read[j + 1]
       /\ localFile = Val(call.saved)

C15_Witness ==
  /\ call.op = "deleteRegistration" /\ call.outcome = "return"
  /\ Len(call.read) = 2 /\ Len(Val(call.saved)) = 1
  /\ call.read[1].registrationId = call.input.registrationId
  /\ Val(call.saved)[1] = call.read[2]

\* C16: a donation update for an id that is not stored fails with an error
\* that says not found, is answered 404 'Registration not found' by the POST
\* route, and leaves the collection of every tier unchanged.
C16_UpdateUnknownId ==
  [][(FirstWithId(call'.read, call'.input.registrationId) = 0)
       => /\ call'.op = "updateRegistrationDonation" =>
               (call'.outcome = "throw" /\ IncludesNotFound(call'.message))
          /\ call'.op = "POST /update-registration-donation" =>
               (call'.status = 404 /\ call'.message = "Registration not found")
          /\ call'.op \in {"updateRegistrationDonation",
                            "POST /update-registration-donation"} =>
               (localFile' = localFile /\ blobStore' = blobStore
                /\ edgeStore' = edgeStore)]_vars

\* C17: updateRegistrationDonation of a stored id saves the collection it
\* read with, on the first record whose registrationId equals the id,
\* hasDonated true, donationAmount the amount with two decimals,
\* stripeSessionId the session id or null and donationDate a timestamp; no
\* other record and no other field is changed.
C17_DonationRecorded ==
  (call.op = "updateRegistrationDonation"
     /\ FirstWithId(call.read, call.input.registrationId) # 0) =>
    LET k == FirstWithId(call.read, call.input.registrationId)
        old == call.read[k]
        expected ==
          [registrationId |-> old.registrationId,
           registrationDate |-> old.registrationDate,
           hasDonated |-> "true",
           donationAmount |-> IF call.input.donationAmount = 1996
                              THEN "2.00" ELSE "25.00",
           stripeSessionId |-> IF call.input.stripeSessionId = Undefined
                               THEN Null ELSE call.input.stripeSessionId,
           donationDate |-> ISONow]
    IN /\ call.outcome = "return" /\ call.saved # None
       /\ Val(call.saved) = [call.read EXCEPT ![k] = expected]
       /\ call.value = Some(expected)
       /\ localFile = Val(call.saved)

C17_Witness ==
  /\ call.op = "updateRegistrationDonation" /\ call.outcome = "return"
  /\ Len(call.read) = 2
  /\ call.read[2].registrationId = call.input.registrationId
  /\ call.read[1].registrationId # call.input.registrationId
  /\ call.input.donationAmount = 1996 /\ Val(call.value).donationAmount = "2.00"
  /\ Val(call.value).stripeSessionId = Null

\* No two records of a collection have the same registrationId (records
\* without one are left aside).
UniqueIds(c) ==
  \A i, j \in 1..Len(c) :
    (c[i].registrationId = c[j].registrationId /\ c[i].registrationId # Undefined)
      => i = j

\* C18: a call of storeRegistration, updateRegistrationDonation or
\* deleteRegistration made on a collection without a repeated registrationId
\* leaves a collection without a repeated registrationId.
C18_UniqueIds ==
  [][(call'.op \in ServiceOps /\ UniqueIds(localFile) /\ edgeStore = Some(localFile))
       => UniqueIds(localFile')]_vars

\* ------------------------------------------------------- missing item
\* C19: a getRegistrations call whose Edge Config read was answered while the
\* item passover_registrations does not exist (404 on the raw call, null or
\* undefined from the client) returns success = true with an empty array taken
\* from Edge Config, not from Blob or the local file, and leaves
\* edgeConfigFailureCount at 0: the case is not counted as a failure.
C19_MissingItemIsEmpty ==
  (call.op = "get" /\ call.ecOk /\ edgeStore = NoItem) =>
    /\ call.success /\ call.data = <<>> /\ call.src = "ec"
    /\ edgeConfigFailureCount = 0

C19_Witness ==
  /\ call.op = "get" /\ call.ecOk /\ edgeStore = NoItem
  /\ call.localR /\ Len(localFile) > 0
  /\ call.blobR /\ blobEnabled /\ blobStore # NoBlob /\ Len(Val(blobStore)) > 0
  /\ call.data = <<>>

\* ----------------------------------------------------------- client kind
InitOps == {"initialize", "test"}

\* C20: a getRegistrations or saveRegistrations call that starts with the
\* manually built client ends with it, and a client that exists is replaced
\* by another one only in a step that is an explicit initialisation call.
C20_DegradedStays ==
  [][/\ (edgeConfigClient = "manual" /\ call'.op \in FacadeOps)
         => edgeConfigClient' = "manual"
     /\ (edgeConfigClient # Null /\ edgeConfigClient' # edgeConfigClient)
         => call'.op \in InitOps]_vars

C20_Witness ==
  /\ call.op \in FacadeOps /\ call.client = "manual" /\ call.ecOk
  /\ edgeConfigClient = "manual" /\ edgeConfigFailureCount = 0

\* ------------------------------------------------------------ fetchWithRetry
\* C21: fetchWithRetry ends, returning or throwing; it makes at most
\* retries + 1 fetch attempts; the delay before the k-th retry is
\* backoff * 2^(k-1); it returns the first response it obtains, every attempt
\* before it having thrown; and it throws only after retries + 1 attempts, the
\* error thrown being the one of the last attempt.
C21_RetryBounded ==
  /\ [](fetching.attempts <= fetching.retries0 + 1)
  /\ [](\A k \in 1..Len(fetching.waits) :
          fetching.waits[k] = fetching.backoff0 * 2^(k - 1))
  /\ [](fetching.pc = "returned" =>
          /\ Val(fetching.result).kind = "response"
          /\ Len(fetching.errors) = fetching.attempts - 1
          /\ Len(fetching.waits) = fetching.attempts - 1)
  /\ [](fetching.pc = "thrown" =>
          /\ fetching.attempts = fetching.retries0 + 1
          /\ Len(fetching.waits) = fetching.retries0
          /\ Val(fetching.result) = fetching.errors[Len(fetching.errors)])
  /\ <>(fetching.pc \notin {"fetch", "wait"})

C21_Witness ==
  /\ fetching.pc = "thrown" /\ fetching.retries0 = 3
  /\ fetching.waits = <<300, 600, 1200>> /\ fetching.attempts = 4
  /\ fetching.errors[3] # fetching.errors[4]

\* C22: a raw Edge Config read that ended in the fallback tiers (Blob, the
\* local file) after a network error or a 5xx response had used up its
\* retries: retries + 1 fetch attempts were made before the read degraded.
C22_RetriedBeforeDegrade ==
  (call.op = "rawRead" /\ call.ecErr) =>
    fetching.attempts = fetching.retries0 + 1

\* -------------------------------------------------------- request validation
\* A request body that lacks a required field, per route.
MissingFields(c) ==
  \/ /\ c.op = "POST /store-passover-registration"
     /\ Val(c.input.registration).registrationId = Undefined
  \/ /\ c.op = "POST /update-registration-donation"
     /\ \/ c.input.registrationId \in {Undefined, ""}
        \/ c.input.amountText \in {Undefined, "abc", "-5"}
  \/ /\ c.op = "POST /create-checkout-session"
     /\ ~(CheckoutFields \subseteq c.input.present)

\* C23: a request with a missing required field (for the donation update
\* also a non-numeric or negative amount) is answered with a 4xx status and
\* leaves the collection of every tier as it was.
C23_MissingFieldsRejected ==
  [][MissingFields(call') =>
       /\ call'.status \in 400..499
       /\ localFile' = localFile /\ blobStore' = blobStore
       /\ edgeStore' = edgeStore]_vars

\* ------------------------------------------------------------ local backup
\* C24: a getRegistrations call made after saveRegistrations(R) returned
\* success with R in the local file leaves R in the local file.
C24_ReadsKeepBackup ==
  [][(/\ call.op = "save" /\ call.success /\ localFile = call.arg
      /\ call'.op = "get")
       => localFile' = call.arg]_vars

\* C25: POST /store-passover-registration answers 200 'Registration saved
\* successfully' only if, during the request, some tier stored the new array
\* or a Blob mirror of it is still under way.
C25_SuccessMeansPersisted ==
  (call.op = "POST /store-passover-registration" /\ call.status = 200) =>
    (call.acc # {} \/ syncs # <<>>)

\* ----------------------------------------------------- availability flag
\* C26: after an initializeEdgeConfig or testEdgeConfig call that returned
\* true and left edgeConfigAvailable true, a read of Edge Config was answered
\* during the call.
C26_AvailableMeansRead ==
  (call.op \in InitOps /\ call.success /\ edgeConfigAvailable) => call.ecOk

\* ------------------------------------------------------- Blob first on save
\* C27: a saveRegistrations call started with edgeConfigFailureCount at or
\* above the threshold and Blob mirroring enabled, in which Blob stored the
\* array, returns 'Successfully saved registrations to Blob storage' and makes
\* no Edge Config write attempt.
C27_BlobFirstEndsSave ==
  [][(/\ call'.op = "save" /\ AtThreshold
      /\ "blob" \in call'.acc)
       => /\ call'.success
          /\ call'.message = "Successfully saved registrations to Blob storage"
          /\ "ec" \notin Range(call'.tiers)]_vars

\* --------------------------------------------------------- DELETE route
\* The index of the record the existence check of the DELETE route finds for
\* id in c: the first exact match, else the first match after removing
\* hyphens and lower-casing, 0 if there is none.
CheckFinds(c, id) ==
  IF FirstWithId(c, id) # 0 THEN FirstWithId(c, id)
  ELSE First({i \in 1..Len(c) :
                NormalizeId(c[i].registrationId) = NormalizeId(id)})

\* C28: on a collection in which every record has a registrationId, DELETE
\* /delete-passover-registration/:id answers 200 and saves the collection
\* without the record its existence check found, or answers 404 and saves
\* nothing when the check found none.
C28_DeleteMatchesCheck ==
  (/\ call.op = "DELETE /delete-passover-registration"
   /\ \A i \in 1..Len(call.read) : call.read[i].registrationId # Undefined) =>
    LET k == CheckFinds(call.read, call.input.registrationId)
    IN IF k = 0
       THEN call.status = 404 /\ call.saved = None
       ELSE call.status = 200 /\ call.saved = Some(Splice(call.read, k))

\* ------------------------------------------------------------- Blob mirror
\* C29: with mirroring enabled and every tier working, whenever no mirror is
\* in flight after saveRegistrations calls, Blob holds the array of the last
\* saveRegistrations call.
C29_MirrorHoldsLastSave ==
  (blobEnabled /\ syncs = <<>> /\ call.lastSaved # None) =>
    blobStore = call.lastSaved

\* C30: whenever no syncRegistrationsToBlob invocation is in flight,
\* syncInProgress is false; and a set syncInProgress is cleared again, so
\* that a later sync is not blocked for ever.
C30_FlagCleared ==
  /\ [](syncs = <<>> => ~syncInProgress)
  /\ (syncInProgress ~> ~syncInProgress)

C30_Witness ==
  /\ call.op = "resume" /\ syncs = <<>> /\ ~syncInProgress
  /\ call.tiers = <<>> /\ blobStore = NoBlob

====
